---- MODULE Spec2Model ----
(***************************************************************************)
(* Delegated TWAP execution engine of MA-Buybacks.                         *)
(*                                                                         *)
(* The session store exists in three variants with the same interface:     *)
(*   "memory"   the in-process Map       (src/lib/sessionKey.ts 463-704)   *)
(*   "supabase" the Postgres table       (src/lib/sessionKey.ts 1-461)     *)
(*   "kv"       the Redis key/value store (src/unnamed/part_015)           *)
(* The session API (src/unnamed/part_010) and the scheduler endpoint       *)
(* (src/unnamed/part_008) are composed with each of them.  The variant is  *)
(* chosen in Init and never changes.  Every call of the in-memory variant  *)
(* runs to completion inside one JavaScript turn; every call of the two    *)
(* persistent variants is awaited, and each of its store round trips is a  *)
(* step of its own, so other handlers interleave between a read and the    *)
(* write that follows it.                                                  *)
(*                                                                         *)
(* Time is Date.now() in milliseconds.  Amounts of MOVE are in hundredths. *)
(***************************************************************************)
EXTENDS Integers, Sequences, FiniteSets, TLC

\* ----------------------------------------------------------------- bounds
MaxSessions == 2        \* sessions ever created
MaxInvocations == 2     \* scheduler invocations ever made
MaxLoad == 3            \* sessions created plus scheduler invocations made
MaxApi == 1             \* session API requests in flight at once
MaxTime == 90000        \* the clock ticks while now < MaxTime, then makes one long jump
MaxCreateTime == 30000  \* sessions are created while now <= MaxCreateTime
MaxRequestSessions == 1 \* RequestSpec, LiveSpec: sessions in the store
MaxLiveInvocations == 1 \* LiveSpec: scheduler invocations at a time

\* ------------------------------------------------------ program constants
MIN_EXECUTION_INTERVAL_MS == 30000
BUFFER_MINUTES == 30
MS_PER_MINUTE == 60 * 1000

\* ------------------------------------------------------------ input sets
Null == "null"           \* null or undefined in a string field
NoObject == [id |-> Null] \* null or undefined where an object is held
Stores == {"memory", "supabase", "kv"}
Addresses == {"0xA"}                     \* the address sessions are created for, as the wallet writes it
Claimants == {"0xA", "0xa", "0xb", Null} \* the userAddress a request may claim
NumTradesChoices == {1, 2}
IntervalChoices == {1}
TotalAmountChoices == {2}
SlippageChoices == {100}
QuoteOut == 98          \* dstAmount of the quote, in hundredths of MOVE
AmountChoices == {0, 2} \* the amount of a confirm_deposit request; 0: none given
ValidTxHash == "0x64hex"
TxHashChoices == {ValidTxHash, "0x12"}   \* the txHash of a confirm_deposit request
\* process.env: the variables the routes read; Null: not set
Deployed ==
  [EXECUTOR_PRIVATE_KEY |-> "0xkey", CRON_SECRET |-> "s3cret", NODE_ENV |-> "production"]
Environments ==
  { Deployed,
    [Deployed EXCEPT !.EXECUTOR_PRIVATE_KEY = Null],
    [Deployed EXCEPT !.CRON_SECRET = Null],
    [Deployed EXCEPT !.NODE_ENV = "development"] }
\* the x-vercel-cron and authorization headers of a scheduler trigger
Headers ==
  { [cron |-> "true", authorization |-> Null] }
    \cup [ cron : {Null},
           authorization : {Null, "Bearer s3cret", "Bearer wrong", "Bearer undefined"} ]
Methods == {"GET", "POST"}
\* longer than any session lasts
LongJump == (2 * 1 + BUFFER_MINUTES + 1) * MS_PER_MINUTE
NoTime == 0 - 1          \* null in a timestamp field
Ids == 1..MaxSessions
Invocations == 1..MaxInvocations
ApiSlots == 1..MaxApi

\* String.prototype.toLowerCase on the addresses of the model
toLowerCase(a) == IF a = "0xA" THEN "0xa" ELSE a

Terminal == {"completed", "failed", "cancelled"}

VARIABLES
  store,              \* which store variant the deployment uses
  env,                \* process.env of the deployment
  now,                \* Date.now()
  sessions,           \* id -> TWAPSession: the objects (memory) or the rows (supabase, kv)
  memMap,             \* memory: the ids that are keys of the Map `sessions`
  kvUserSet,          \* kv: the ids that are members of their user's twap:user:<addr> set
  lastExecutionTime,  \* process-wide timestamp of the scheduler endpoint
  inv,                \* scheduler invocations: position and locals of each
  api,                \* session API requests in flight (persistent stores only)
  cancelledIds,       \* history: the ids a cancel request has cancelled
  cancelledInFlight,  \* history: the ids cancelled while a trade of theirs was in flight
  pickedAfterCancel,  \* history: the ids a due scan returned after they were cancelled
  pickedInFlight,     \* history: the ids a due scan returned while a trade of theirs was unrecorded
  finished,           \* history: of every finished executeTrade, the statuses it called recordTrade with
  strandedRecords,    \* history: the trades recorded after a confirmed swap whose transfer failed
  unrecorded,         \* history: the ids a recordTrade call found no session for
  handled             \* history: the request the last step answered with its response,
                      \* and the times the scheduler endpoint passed its rate limit

\* what the handlers read and write
state == <<store, env, now, sessions, memMap, kvUserSet, lastExecutionTime, inv, api,
           cancelledIds, cancelledInFlight, pickedAfterCancel, pickedInFlight, finished, strandedRecords,
           unrecorded>>

vars == <<state, handled>>

\* ------------------------------------------------------------ TWAPSession
\* a createSession that schedules the first trade before any deposit
NewSession_Scheduled(userAddress, totalAmount, numTrades, intervalMinutes, slippageBps, t) ==
  [ userAddress |-> userAddress,
    depositTxHash |-> Null,
    depositedAmount |-> 0,
    depositConfirmed |-> FALSE,
    totalAmount |-> totalAmount,
    amountPerTrade |-> totalAmount \div numTrades,
    numTrades |-> numTrades,
    tradesCompleted |-> 0,
    intervalMinutes |-> intervalMinutes,
    slippageBps |-> slippageBps,
    status |-> "awaiting_deposit",
    createdAt |-> t,
    startedAt |-> NoTime,
    nextTradeAt |-> t,
    expiresAt |-> t + (numTrades * intervalMinutes + BUFFER_MINUTES) * MS_PER_MINUTE,
    totalMoveReceived |-> 0,
    trades |-> << >>,
    lastError |-> Null ]

\* createSession: the session object it builds
NewSession(userAddress, totalAmount, numTrades, intervalMinutes, slippageBps, t) ==
  [ userAddress |-> userAddress,
    depositTxHash |-> Null,
    depositedAmount |-> 0,
    depositConfirmed |-> FALSE,
    totalAmount |-> totalAmount,
    amountPerTrade |-> totalAmount \div numTrades,
    numTrades |-> numTrades,
    tradesCompleted |-> 0,
    intervalMinutes |-> intervalMinutes,
    slippageBps |-> slippageBps,
    status |-> "awaiting_deposit",
    createdAt |-> t,
    startedAt |-> NoTime,
    nextTradeAt |-> NoTime,
    expiresAt |-> t + (numTrades * intervalMinutes + BUFFER_MINUTES) * MS_PER_MINUTE,
    totalMoveReceived |-> 0,
    trades |-> << >>,
    lastError |-> Null ]

\* a confirmDeposit that activates without setting depositConfirmed
ConfirmedSession_Unconfirmed(s, txHash, amount, t) ==
  [s EXCEPT !.depositTxHash = txHash,
            !.depositedAmount = amount,
            !.status = "active",
            !.startedAt = t,
            !.nextTradeAt = t]

\* confirmDeposit: the fields it assigns
ConfirmedSession(s, txHash, amount, t) ==
  [s EXCEPT !.depositTxHash = txHash,
            !.depositedAmount = amount,
            !.depositConfirmed = TRUE,
            !.status = "active",
            !.startedAt = t,
            !.nextTradeAt = t]

\* a recordTrade that schedules the next trade even on completion
RecordedSession_AlwaysScheduled(s, trade, t) ==
  LET pushed == [s EXCEPT !.trades = Append(@, trade)] IN
  IF trade.status = "success"
  THEN LET counted == [pushed EXCEPT !.tradesCompleted = @ + 1,
                                     !.totalMoveReceived = @ + trade.amountOut,
                                     !.lastError = Null,
                                     !.nextTradeAt = t + pushed.intervalMinutes * MS_PER_MINUTE] IN
       IF counted.tradesCompleted >= counted.numTrades
       THEN [counted EXCEPT !.status = "completed"]
       ELSE counted
  ELSE IF trade.status = "failed"
  THEN LET noted == [pushed EXCEPT !.lastError =
                        IF trade.error = Null THEN "Trade failed" ELSE trade.error] IN
       IF noted.tradesCompleted < noted.numTrades
       THEN [noted EXCEPT !.nextTradeAt = t + noted.intervalMinutes * MS_PER_MINUTE]
       ELSE noted
  ELSE pushed

\* a recordTrade that leaves a failed trade due for an immediate retry
RecordedSession_RetriesAtOnce(s, trade, t) ==
  LET pushed == [s EXCEPT !.trades = Append(@, trade)] IN
  IF trade.status = "success"
  THEN LET counted == [pushed EXCEPT !.tradesCompleted = @ + 1,
                                     !.totalMoveReceived = @ + trade.amountOut,
                                     !.lastError = Null] IN
       IF counted.tradesCompleted >= counted.numTrades
       THEN [counted EXCEPT !.status = "completed", !.nextTradeAt = NoTime]
       ELSE [counted EXCEPT !.nextTradeAt = t + counted.intervalMinutes * MS_PER_MINUTE]
  ELSE IF trade.status = "failed"
  THEN [pushed EXCEPT !.lastError =
                        IF trade.error = Null THEN "Trade failed" ELSE trade.error]
  ELSE pushed

\* recordTrade: the session after the trade has been pushed and accounted
RecordedSession(s, trade, t) ==
  LET pushed == [s EXCEPT !.trades = Append(@, trade)] IN
  IF trade.status = "success"
  THEN LET counted == [pushed EXCEPT !.tradesCompleted = @ + 1,
                                     !.totalMoveReceived = @ + trade.amountOut,
                                     !.lastError = Null] IN
       IF counted.tradesCompleted >= counted.numTrades
       THEN [counted EXCEPT !.status = "completed", !.nextTradeAt = NoTime]
       ELSE [counted EXCEPT !.nextTradeAt = t + counted.intervalMinutes * MS_PER_MINUTE]
  ELSE IF trade.status = "failed"
  THEN LET noted == [pushed EXCEPT !.lastError =
                        IF trade.error = Null THEN "Trade failed" ELSE trade.error] IN
       IF noted.tradesCompleted < noted.numTrades
       THEN [noted EXCEPT !.nextTradeAt = t + noted.intervalMinutes * MS_PER_MINUTE]
       ELSE noted
  ELSE pushed

\* the filter of getActiveSessionsForExecution
IsDue(s, t) ==
  /\ s.status = "active"
  /\ s.depositConfirmed
  /\ s.nextTradeAt # NoTime
  /\ s.nextTradeAt <= t
  /\ s.tradesCompleted < s.numTrades
  /\ s.expiresAt > t

\* a sweep that passes over the sessions that were never funded
IsSwept_FundedOnly(s, t) ==
  /\ s.depositConfirmed
  /\ s.expiresAt < t
  /\ IF store = "supabase" THEN s.status \notin Terminal ELSE s.status # "completed"

\* the condition of cleanupExpiredSessions; the supabase variant also skips
\* failed and cancelled rows
IsSwept(s, t) ==
  /\ s.expiresAt < t
  /\ IF store = "supabase" THEN s.status \notin Terminal ELSE s.status # "completed"

\* a sweep that also zeroes the amount of the trades still to come
SweptSession_Reset(s) ==
  [s EXCEPT !.status = "failed", !.lastError = "Session expired", !.amountPerTrade = 0]

\* cleanupExpiredSessions: what it assigns to a swept session
SweptSession(s) == [s EXCEPT !.status = "failed", !.lastError = "Session expired"]

\* cleanupExpiredSessions run from its start to its end with nothing in between,
\* on the store ss with the Map keys mm at the time t: the store it leaves and
\* the count it returns
CleanupExpiredSessions(ss, mm, t) ==
  LET pool == IF store = "memory" THEN mm ELSE DOMAIN ss
      swept == {i \in pool : IsSwept(ss[i], t)}
  IN [ sessions |-> [i \in DOMAIN ss |-> IF i \in swept THEN SweptSession(ss[i]) ELSE ss[i]],
       memMap |-> mm \ swept,
       cleaned |-> Cardinality(swept) ]

\* the sessions a store lookup by id can find
Stored == IF store = "memory" THEN memMap ELSE DOMAIN sessions

\* getSessionsByUser
SessionsByUser(userAddress) ==
  LET pool == CASE store = "memory" -> memMap
                [] store = "kv" -> kvUserSet
                [] OTHER -> DOMAIN sessions
  IN {i \in pool : toLowerCase(sessions[i].userAddress) = toLowerCase(userAddress)}

\* POST: the existing-session check
ExistingSession(userAddress) ==
  {i \in SessionsByUser(userAddress) : sessions[i].status \in {"active", "awaiting_deposit"}}

\* ------------------------------------------------------------ TradeRecord
\* executeTrade: the pending record it starts from
PendingTrade(s) ==
  [ seq |-> s.tradesCompleted + 1,      \* id = trade-<session id>-<seq>
    amountIn |-> s.amountPerTrade,
    amountOut |-> 0,
    swapTxHash |-> "",
    transferTxHash |-> Null,
    status |-> "pending",
    error |-> Null ]

\* executeTrade, after executeSwap returned
SuccessTrade(trade, result) ==
  [trade EXCEPT !.swapTxHash = result.swapTxHash,
                !.transferTxHash = result.transferTxHash,
                !.amountOut = result.moveReceived,
                !.status = "success"]

\* executeTrade, in its catch block
FailedTrade(trade, errorMessage) ==
  [trade EXCEPT !.status = "failed", !.error = errorMessage]

\* the messages executeSwap throws with
QuoteError == "Mosaic quote failed: 500 - upstream"
TxError == "Transaction failed: vm_status"      \* submitSponsoredTransaction, either leg

\* ------------------------------------------------- the persistent stores
\* supabase confirmDeposit: the columns its UPDATE sets, taken from the object v
ConfirmColumns(row, v) ==
  [row EXCEPT !.depositTxHash = v.depositTxHash,
              !.depositedAmount = v.depositedAmount,
              !.depositConfirmed = TRUE,
              !.status = "active",
              !.startedAt = v.startedAt,
              !.nextTradeAt = v.nextTradeAt]

\* supabase recordTrade: the columns its UPDATE sets, taken from the object v
RecordColumns(row, v) ==
  [row EXCEPT !.trades = v.trades,
              !.tradesCompleted = v.tradesCompleted,
              !.totalMoveReceived = v.totalMoveReceived,
              !.status = v.status,
              !.nextTradeAt = v.nextTradeAt,
              !.lastError = v.lastError]

\* kv.set writes the whole object; a supabase UPDATE writes the named columns
ConfirmWritten(row, v) == IF store = "kv" THEN v ELSE ConfirmColumns(row, v)
RecordWritten(row, v) == IF store = "kv" THEN v ELSE RecordColumns(row, v)

\* ------------------------------------------------------- handler locals
IdleApi == [pc |-> "idle"]

IdleInv ==
  [ pc |-> "idle",
    due |-> << >>,             \* sessionsToExecute, the part not yet executed
    snaps |-> << >>,           \* persistent stores: the objects the due scan returned
    sweep |-> << >>,           \* kv cleanup: the objects still to be written back
    cleaned |-> 0,             \* the count cleanupExpiredSessions returns
    retryAfter |-> 0,          \* the retryAfter of a rate-limited response, in seconds
    cur |-> 0,                 \* the session executeTrade is running for
    trade |-> NoObject,          \* executeTrade: its TradeRecord
    calls |-> << >>,           \* executeTrade: the recordTrade calls it has made
    toRecord |-> << >>,        \* persistent stores: the calls still to be carried out
    rec |-> NoObject,            \* recordTrade: the object read and updated, not yet written
    swapConfirmed |-> FALSE,   \* the swap of this trade was confirmed on-chain
    transferFailed |-> FALSE,  \* the transfer of this trade failed
    results |-> << >>,         \* GET: the results pushed so far
    executed |-> 0,            \* the response: results.length
    successful |-> 0,          \* the response: successCount
    failed |-> 0,              \* the response: failCount
    response |-> Null ]

DoneInv(response) == [IdleInv EXCEPT !.pc = "done", !.response = response]

\* nothing handled yet
NoRequest ==
  [ route |-> "none", method |-> Null, cron |-> Null, authorization |-> Null,
    claimed |-> Null, owner |-> Null, elapsed |-> 0, status |-> 0, retryAfter |-> 0,
    changed |-> FALSE, stamped |-> FALSE ]
NoRequests == [last |-> NoRequest, acceptedAt |-> << >>, paused |-> {}]

\* isExecutorConfigured: !!process.env.EXECUTOR_PRIVATE_KEY, with a mutant of it
\* that takes every deployment for configured
IsExecutorConfigured_Always(e) == TRUE

IsExecutorConfigured(e) == e.EXECUTOR_PRIVATE_KEY # Null

\* the template literal `Bearer ${CRON_SECRET}`
Bearer(secret) == IF secret = Null THEN "Bearer undefined" ELSE "Bearer " \o secret

\* isAuthorizedCronRequest: the scheduler's header, else the bearer secret if
\* one is configured, else anything outside production
isAuthorizedCronRequest(headers, e) ==
  IF headers.cron = "true" THEN TRUE
  ELSE IF e.CRON_SECRET # Null /\ headers.authorization = Bearer(e.CRON_SECRET) THEN TRUE
  ELSE IF e.NODE_ENV # "production" THEN TRUE
  ELSE FALSE

\* Math.ceil(x / d) of integers x >= 0, d > 0
Ceil(x, d) == (x + d - 1) \div d

\* the retryAfter of the rate-limited response, with a mutant of it that rounds
\* down
RetryAfter_RoundedDown(timeSinceLastExecution) ==
  (MIN_EXECUTION_INTERVAL_MS - timeSinceLastExecution) \div 1000

RetryAfter(timeSinceLastExecution) ==
  Ceil(MIN_EXECUTION_INTERVAL_MS - timeSinceLastExecution, 1000)

InExecuteTrade == {"quote", "swap", "transfer", "recRead", "recWrite"}

\* an executeTrade for session i has started and its recordTrade is not written
InFlight(i) == \E c \in Invocations : inv[c].cur = i /\ inv[c].pc \in InExecuteTrade

\* the orders in which a set of ids can be iterated
Orders(S) ==
  {q \in [1..Cardinality(S) -> S] : \A a, b \in 1..Cardinality(S) : a # b => q[a] # q[b]}

\* a Map iterates in insertion order, i.e. by id; a query result has no fixed order
ScanOrders(S) ==
  IF store = "memory"
  THEN {q \in Orders(S) : \A a, b \in 1..Cardinality(S) : a < b => q[a] < q[b]}
  ELSE Orders(S)

\* executeTrade, try block after executeSwap returned: one recordTrade call
AfterTry(r, result) ==
  LET t == SuccessTrade(r.trade, result) IN
  [r EXCEPT !.trade = t, !.calls = Append(@, t)]

\* a catch block that returns the failed trade without recording it
AfterCatch_Unrecorded(r, errorMessage) ==
  LET t == FailedTrade(r.trade, errorMessage) IN
  [r EXCEPT !.trade = t]

\* executeTrade, catch block: one recordTrade call
AfterCatch(r, errorMessage) ==
  LET t == FailedTrade(r.trade, errorMessage) IN
  [r EXCEPT !.trade = t, !.calls = Append(@, t)]

\* in-memory recordTrade for each call of a list, in order
RECURSIVE RecordAll(_, _, _)
RecordAll(s, cs, t) ==
  IF cs = << >> THEN s ELSE RecordAll(RecordedSession(s, Head(cs), t), Tail(cs), t)

\* executeTrade returned: what the history notes of it
Returned(r) ==
  /\ finished' = finished \cup {[i \in 1..Len(r.calls) |-> r.calls[i].status]}
  /\ strandedRecords' =
       IF r.swapConfirmed /\ r.transferFailed
       THEN strandedRecords \cup {r.calls[i] : i \in 1..Len(r.calls)}
       ELSE strandedRecords

\* the fields of a session object that GET and executeTrade read
Seen(s) ==
  [ userAddress |-> s.userAddress, amountPerTrade |-> s.amountPerTrade,
    slippageBps |-> s.slippageBps, tradesCompleted |-> s.tradesCompleted,
    numTrades |-> s.numTrades ]

\* GET, trade loop: results.push of what the executeTrade of r returned
Pushed(r) ==
  IF r.pc = "balances" THEN r.results
  ELSE Append(r.results, [sessionId |-> r.cur, success |-> r.trade.status = "success"])

\* GET: the response after the loop, from the results
Responded(results) ==
  LET successCount == Cardinality({k \in DOMAIN results : results[k].success})
      failCount == Cardinality({k \in DOMAIN results : ~results[k].success})
  IN [DoneInv("ok") EXCEPT !.executed = Len(results), !.successful = successCount,
                           !.failed = failCount]

\* a trade loop that stops at the first trade that failed
NextTrade_StopsAtFailure(r, ss) ==
  IF r.due = << >> \/ (r.pc # "balances" /\ r.trade.status # "success")
  THEN Responded(Pushed(r))
  ELSE LET id == Head(r.due)
           s == IF store = "memory" THEN Seen(ss[id]) ELSE r.snaps[id]
       IN [r EXCEPT !.pc = "quote", !.cur = id, !.due = Tail(r.due), !.cleaned = 0,
                    !.results = Pushed(r),
                    !.trade = PendingTrade(s), !.calls = << >>,
                    !.toRecord = << >>, !.rec = NoObject,
                    !.swapConfirmed = FALSE, !.transferFailed = FALSE]

\* GET, trade loop: the next executeTrade runs up to its first await, or the
\* pass ends.  ss is the store as this turn leaves it.
NextTrade(r, ss) ==
  IF r.due = << >>
  THEN Responded(Pushed(r))
  ELSE LET id == Head(r.due)
           s == IF store = "memory" THEN Seen(ss[id]) ELSE r.snaps[id]
       IN [r EXCEPT !.pc = "quote", !.cur = id, !.due = Tail(r.due), !.cleaned = 0,
                    !.results = Pushed(r),
                    !.trade = PendingTrade(s), !.calls = << >>,
                    !.toRecord = << >>, !.rec = NoObject,
                    !.swapConfirmed = FALSE, !.transferFailed = FALSE]

\* ------------------------------------------------------------------ Init
Init ==
  /\ store \in Stores
  /\ now = MIN_EXECUTION_INTERVAL_MS
  /\ sessions = << >>
  /\ memMap = {}
  /\ kvUserSet = {}
  /\ lastExecutionTime = 0
  /\ inv = [c \in Invocations |-> IdleInv]
  /\ api = [a \in ApiSlots |-> IdleApi]
  /\ cancelledIds = {}
  /\ cancelledInFlight = {}
  /\ pickedAfterCancel = {}
  /\ pickedInFlight = {}
  /\ finished = {}
  /\ strandedRecords = {}
  /\ unrecorded = {}
  /\ env = Deployed
  /\ handled = NoRequests

\* sessions created or being created, plus scheduler invocations made
Load ==
  Len(sessions) + Cardinality({a \in ApiSlots : api[a].pc = "insert"})
                + Cardinality({c \in Invocations : inv[c].pc # "idle"})

history == <<cancelledIds, cancelledInFlight, pickedAfterCancel, pickedInFlight, finished, strandedRecords,
             unrecorded>>

\* time passes: a minute at a time, and at the end of the horizon in one jump
\* past every expiry
Advance ==
  /\ now < LongJump
  /\ now' = IF now < MaxTime THEN now + MS_PER_MINUTE ELSE now + LongJump
  /\ UNCHANGED <<store, env, sessions, memMap, kvUserSet, lastExecutionTime, inv, api, history>>

\* ------------------------------------------------------------ session API
\* the ownership check of PATCH and DELETE: skipped when no address is claimed
Owns(claimed, s) ==
  claimed = Null \/ toLowerCase(s.userAddress) = toLowerCase(claimed)

\* PATCH confirm_deposit: the test /^0x[a-fA-F0-9]{64}$/ on the hashes of the model
IsTxHash(txHash) == txHash = ValidTxHash

\* PATCH confirm_deposit: amount || session.totalAmount
DepositAmount(amount, s) == IF amount = 0 THEN s.totalAmount ELSE amount

\* the store gets a new session under the next id
Inserted(session) ==
  LET id == Len(sessions) + 1 IN
  /\ sessions' = Append(sessions, session)
  /\ memMap' = IF store = "memory" THEN memMap \cup {id} ELSE memMap
  /\ kvUserSet' = IF store = "kv" THEN kvUserSet \cup {id} ELSE kvUserSet

\* POST: the existing-session check, then createSession.  With a persistent
\* store the insert is a later step.
Post(a, userAddress, totalAmount, numTrades, intervalMinutes, slippageBps) ==
  /\ api[a].pc = "idle"
  /\ IsExecutorConfigured(env)
  /\ now <= MaxCreateTime
  /\ Len(sessions) + Cardinality({b \in ApiSlots : api[b].pc = "insert"}) < MaxSessions
  /\ Load < MaxLoad
  /\ IF ExistingSession(userAddress) # {}
     THEN UNCHANGED state
     ELSE IF store = "memory"
          THEN /\ Inserted(NewSession(userAddress, totalAmount, numTrades,
                                      intervalMinutes, slippageBps, now))
               /\ UNCHANGED <<store, env, now, lastExecutionTime, inv, api, history>>
          ELSE /\ api' = [api EXCEPT ![a] =
                            [ pc |-> "insert", userAddress |-> userAddress,
                              totalAmount |-> totalAmount, numTrades |-> numTrades,
                              intervalMinutes |-> intervalMinutes,
                              slippageBps |-> slippageBps ]]
               /\ UNCHANGED <<store, env, now, sessions, memMap, kvUserSet,
                              lastExecutionTime, inv, history>>

\* createSession of a persistent store: build the object, insert it
PostInsert(a) ==
  /\ api[a].pc = "insert"
  /\ Inserted(NewSession(api[a].userAddress, api[a].totalAmount, api[a].numTrades,
                         api[a].intervalMinutes, api[a].slippageBps, now))
  /\ api' = [api EXCEPT ![a] = IdleApi]
  /\ UNCHANGED <<store, env, now, lastExecutionTime, inv, history>>

\* PATCH confirm_deposit: the route's checks, then confirmDeposit
ConfirmDeposit(a, id, claimed, txHash, amount) ==
  /\ api[a].pc = "idle"
  /\ id \in Stored
  /\ Owns(claimed, sessions[id])
  /\ IsTxHash(txHash)
  /\ sessions[id].status = "awaiting_deposit"
  /\ IF store = "memory"
     THEN /\ sessions' = [sessions EXCEPT ![id] =
                 ConfirmedSession(@, txHash, DepositAmount(amount, @), now)]
          /\ UNCHANGED api
     ELSE /\ api' = [api EXCEPT ![a] =
                 [ pc |-> "confirmRead", id |-> id, txHash |-> txHash,
                   amount |-> DepositAmount(amount, sessions[id]) ]]
          /\ UNCHANGED sessions
  /\ UNCHANGED <<store, env, now, memMap, kvUserSet, lastExecutionTime, inv, history>>

\* confirmDeposit of a persistent store: getSession, assign the fields
ConfirmRead(a) ==
  /\ api[a].pc = "confirmRead"
  /\ api' = [api EXCEPT ![a] =
        [ pc |-> "confirmWrite", id |-> api[a].id,
          value |-> ConfirmedSession(sessions[api[a].id], api[a].txHash,
                                     api[a].amount, now) ]]
  /\ UNCHANGED <<store, env, now, sessions, memMap, kvUserSet, lastExecutionTime, inv, history>>

\* confirmDeposit of a persistent store: the write
ConfirmWrite(a) ==
  /\ api[a].pc = "confirmWrite"
  /\ sessions' = [sessions EXCEPT ![api[a].id] = ConfirmWritten(@, api[a].value)]
  /\ api' = [api EXCEPT ![a] = IdleApi]
  /\ UNCHANGED <<store, env, now, memMap, kvUserSet, lastExecutionTime, inv, history>>

\* PATCH pause: assigns to the object getSession returned, which is the stored
\* object only in the in-memory store
Pause(id, claimed) ==
  /\ id \in Stored
  /\ Owns(claimed, sessions[id])
  /\ sessions[id].status = "active"
  /\ sessions' = IF store = "memory"
                 THEN [sessions EXCEPT ![id].status = "paused"]
                 ELSE sessions
  /\ UNCHANGED <<store, env, now, memMap, kvUserSet, lastExecutionTime, inv, api, history>>

\* PATCH resume: likewise
Resume(id, claimed) ==
  /\ id \in Stored
  /\ Owns(claimed, sessions[id])
  /\ sessions[id].status = "paused"
  /\ sessions' = IF store = "memory"
                 THEN [sessions EXCEPT ![id].status = "active", ![id].nextTradeAt = now]
                 ELSE sessions
  /\ UNCHANGED <<store, env, now, memMap, kvUserSet, lastExecutionTime, inv, api, history>>

\* DELETE: the ownership check, then deleteSession.  memory: mark and remove
\* from the Map; supabase: one UPDATE of status; kv: read here, write later.
Delete(a, id, claimed) ==
  /\ api[a].pc = "idle"
  /\ id \in Stored
  /\ Owns(claimed, sessions[id])
  /\ IF store = "kv"
     THEN /\ api' = [api EXCEPT ![a] =
                 [ pc |-> "deleteWrite", id |-> id,
                   value |-> [sessions[id] EXCEPT !.status = "cancelled"] ]]
          /\ UNCHANGED <<sessions, memMap, cancelledIds, cancelledInFlight>>
     ELSE /\ sessions' = [sessions EXCEPT ![id].status = "cancelled"]
          /\ memMap' = memMap \ {id}
          /\ cancelledIds' = cancelledIds \cup {id}
          /\ cancelledInFlight' = cancelledInFlight \cup {i \in {id} : InFlight(i)}
          /\ UNCHANGED api
  /\ UNCHANGED <<store, env, now, kvUserSet, lastExecutionTime, inv,
                 pickedAfterCancel, pickedInFlight, finished, strandedRecords,
                 unrecorded>>

\* kv deleteSession: kv.set of the object read, kv.srem from the user's set
DeleteWrite(a) ==
  /\ api[a].pc = "deleteWrite"
  /\ sessions' = [sessions EXCEPT ![api[a].id] = api[a].value]
  /\ kvUserSet' = kvUserSet \ {api[a].id}
  /\ cancelledIds' = cancelledIds \cup {api[a].id}
  /\ cancelledInFlight' = cancelledInFlight \cup {i \in {api[a].id} : InFlight(i)}
  /\ api' = [api EXCEPT ![a] = IdleApi]
  /\ UNCHANGED <<store, env, now, memMap, lastExecutionTime, inv,
                 pickedAfterCancel, pickedInFlight, finished, strandedRecords,
                 unrecorded>>

\* ----------------------------------------------------- scheduler endpoint
\* the due scan returned the ids D: what the history notes of it
Noted(D) ==
  /\ pickedAfterCancel' = pickedAfterCancel \cup (D \cap cancelledIds)
  /\ pickedInFlight' = pickedInFlight \cup {i \in D : InFlight(i)}

\* GET up to its first await: the rate limit, then (in-memory store) the
\* expiration sweep and the due scan in the same turn
Start(c) ==
  /\ inv[c].pc = "idle"
  /\ \A b \in Invocations : b < c => inv[b].pc # "idle"
  /\ Load < MaxLoad
  /\ IF now - lastExecutionTime < MIN_EXECUTION_INTERVAL_MS
     THEN /\ inv' = [inv EXCEPT ![c] =
                 [DoneInv("rate_limited") EXCEPT
                    !.retryAfter = RetryAfter(now - lastExecutionTime)]]
          /\ UNCHANGED <<store, env, now, sessions, memMap, kvUserSet, lastExecutionTime,
                         api, history>>
     ELSE /\ lastExecutionTime' = now
          /\ IF ~IsExecutorConfigured(env)
             THEN /\ inv' = [inv EXCEPT ![c] = DoneInv("unavailable")]
                  /\ UNCHANGED <<sessions, memMap, pickedAfterCancel, pickedInFlight>>
             ELSE IF store = "memory"
             THEN LET swept == {i \in memMap : IsSwept(sessions[i], now)}
                      after == [i \in DOMAIN sessions |->
                                  IF i \in swept THEN SweptSession(sessions[i])
                                  ELSE sessions[i]]
                      D == {i \in memMap \ swept : IsDue(after[i], now)}
                  IN /\ sessions' = after
                     /\ memMap' = memMap \ swept
                     /\ Noted(D)
                     /\ \E q \in ScanOrders(D) :
                          inv' = [inv EXCEPT ![c] =
                             IF D = {}
                             THEN [DoneInv("ok") EXCEPT !.cleaned = Cardinality(swept)]
                             ELSE [IdleInv EXCEPT !.pc = "balances", !.due = q,
                                                  !.cleaned = Cardinality(swept)]]
             ELSE /\ inv' = [inv EXCEPT ![c] = [IdleInv EXCEPT !.pc = "cleanup"]]
                  /\ UNCHANGED <<sessions, memMap, pickedAfterCancel, pickedInFlight>>
          /\ UNCHANGED <<store, env, now, kvUserSet, api, cancelledIds, cancelledInFlight, finished, strandedRecords,
                         unrecorded>>

\* supabase cleanupExpiredSessions: one UPDATE
Cleanup(c) ==
  /\ inv[c].pc = "cleanup"
  /\ store = "supabase"
  /\ sessions' = [i \in DOMAIN sessions |->
                    IF IsSwept(sessions[i], now) THEN SweptSession(sessions[i])
                    ELSE sessions[i]]
  /\ inv' = [inv EXCEPT ![c].pc = "scan",
                        ![c].cleaned = Cardinality({i \in DOMAIN sessions :
                                                      IsSwept(sessions[i], now)})]
  /\ UNCHANGED <<store, env, now, memMap, kvUserSet, lastExecutionTime, api, history>>

\* kv cleanupExpiredSessions: getAllSessions, mark the expired objects
CleanupRead(c) ==
  /\ inv[c].pc = "cleanup"
  /\ store = "kv"
  /\ LET swept == {i \in DOMAIN sessions : IsSwept(sessions[i], now)} IN
     inv' = [inv EXCEPT ![c].pc = IF swept = {} THEN "scan" ELSE "sweep",
                        ![c].sweep = [i \in swept |-> SweptSession(sessions[i])]]
  /\ UNCHANGED <<store, env, now, sessions, memMap, kvUserSet, lastExecutionTime, api, history>>

\* kv cleanupExpiredSessions: kv.set and kv.srem of one marked object
CleanupWrite(c, i) ==
  /\ inv[c].pc = "sweep"
  /\ i \in DOMAIN inv[c].sweep
  /\ sessions' = [sessions EXCEPT ![i] = inv[c].sweep[i]]
  /\ kvUserSet' = kvUserSet \ {i}
  /\ LET rest == [j \in DOMAIN inv[c].sweep \ {i} |-> inv[c].sweep[j]] IN
     inv' = [inv EXCEPT ![c].pc = IF DOMAIN rest = {} THEN "scan" ELSE "sweep",
                        ![c].sweep = rest,
                        ![c].cleaned = @ + 1]
  /\ UNCHANGED <<store, env, now, memMap, lastExecutionTime, api, history>>

\* getActiveSessionsForExecution of a persistent store
Scan(c) ==
  /\ inv[c].pc = "scan"
  /\ LET D == {i \in DOMAIN sessions : IsDue(sessions[i], now)} IN
     /\ Noted(D)
     /\ \E q \in ScanOrders(D) :
          inv' = [inv EXCEPT ![c] =
             IF D = {} THEN [DoneInv("ok") EXCEPT !.cleaned = inv[c].cleaned]
             ELSE [IdleInv EXCEPT !.pc = "balances", !.due = q,
                                  !.cleaned = inv[c].cleaned,
                                  !.snaps = [i \in D |-> Seen(sessions[i])]]]
  /\ UNCHANGED <<store, env, now, sessions, memMap, kvUserSet, lastExecutionTime, api,
                 cancelledIds, cancelledInFlight, finished, strandedRecords, unrecorded>>

\* getExecutorBalances returned: the trade loop starts
Balances(c) ==
  /\ inv[c].pc = "balances"
  /\ inv' = [inv EXCEPT ![c] = NextTrade(inv[c], sessions)]
  /\ UNCHANGED <<store, env, now, sessions, memMap, kvUserSet, lastExecutionTime, api, history>>

\* executeTrade calls recordTrade with the calls of r.  The in-memory
\* recordTrade runs here, and so does the start of the next trade; the
\* recordTrade of a persistent store starts with a read.
Recording(c, r) ==
  IF store = "memory"
  THEN LET after == IF r.cur \in memMap
                    THEN [sessions EXCEPT ![r.cur] = RecordAll(@, r.calls, now)]
                    ELSE sessions
       IN /\ sessions' = after
          /\ unrecorded' = IF r.cur \notin memMap /\ r.calls # << >>
                           THEN unrecorded \cup {r.cur} ELSE unrecorded
          /\ Returned(r)
          /\ inv' = [inv EXCEPT ![c] = NextTrade(r, after)]
  ELSE IF r.calls = << >>
  THEN /\ Returned(r)
       /\ inv' = [inv EXCEPT ![c] = NextTrade(r, sessions)]
       /\ UNCHANGED <<sessions, unrecorded>>
  ELSE /\ inv' = [inv EXCEPT ![c] = [r EXCEPT !.pc = "recRead", !.toRecord = r.calls]]
       /\ UNCHANGED <<sessions, finished, strandedRecords, unrecorded>>

\* executeSwap: the quote request returned
QuoteReturns(c, ok) ==
  /\ inv[c].pc = "quote"
  /\ IF ok
     THEN /\ inv' = [inv EXCEPT ![c].pc = "swap"]
          /\ UNCHANGED <<sessions, finished, strandedRecords, unrecorded>>
     ELSE Recording(c, AfterCatch(inv[c], QuoteError))
  /\ UNCHANGED <<store, env, now, memMap, kvUserSet, lastExecutionTime, api,
                 cancelledIds, cancelledInFlight, pickedAfterCancel, pickedInFlight>>

\* executeSwap: the swap transaction was confirmed, or failed
SwapReturns(c, ok) ==
  /\ inv[c].pc = "swap"
  /\ IF ok
     THEN /\ inv' = [inv EXCEPT ![c].pc = "transfer", ![c].swapConfirmed = TRUE]
          /\ UNCHANGED <<sessions, finished, strandedRecords, unrecorded>>
     ELSE Recording(c, AfterCatch(inv[c], TxError))
  /\ UNCHANGED <<store, env, now, memMap, kvUserSet, lastExecutionTime, api,
                 cancelledIds, cancelledInFlight, pickedAfterCancel, pickedInFlight>>

\* executeSwap: transferMoveToUser was confirmed, or failed
TransferReturns(c, ok) ==
  /\ inv[c].pc = "transfer"
  /\ IF ok
     THEN Recording(c, AfterTry(inv[c],
             [ swapTxHash |-> "0xswap", transferTxHash |-> "0xtransfer",
               moveReceived |-> QuoteOut ]))
     ELSE Recording(c, AfterCatch([inv[c] EXCEPT !.transferFailed = TRUE], TxError))
  /\ UNCHANGED <<store, env, now, memMap, kvUserSet, lastExecutionTime, api,
                 cancelledIds, cancelledInFlight, pickedAfterCancel, pickedInFlight>>

\* recordTrade of a persistent store: getSession, push and account
RecordRead(c) ==
  /\ inv[c].pc = "recRead"
  /\ inv' = [inv EXCEPT ![c].pc = "recWrite",
                        ![c].rec = RecordedSession(sessions[inv[c].cur],
                                                   Head(inv[c].toRecord), now)]
  /\ UNCHANGED <<store, env, now, sessions, memMap, kvUserSet, lastExecutionTime, api, history>>

\* recordTrade of a persistent store: the write; executeTrade returns and the
\* next trade starts
RecordWrite(c) ==
  /\ inv[c].pc = "recWrite"
  /\ sessions' = [sessions EXCEPT ![inv[c].cur] = RecordWritten(@, inv[c].rec)]
  /\ IF Tail(inv[c].toRecord) # << >>
     THEN /\ inv' = [inv EXCEPT ![c].pc = "recRead", ![c].rec = NoObject,
                                ![c].toRecord = Tail(@)]
          /\ UNCHANGED <<finished, strandedRecords>>
     ELSE /\ Returned(inv[c])
          /\ inv' = [inv EXCEPT ![c] = NextTrade(inv[c], sessions')]
  /\ UNCHANGED unrecorded
  /\ UNCHANGED <<store, env, now, memMap, kvUserSet, lastExecutionTime, api,
                 cancelledIds, cancelledInFlight, pickedAfterCancel, pickedInFlight>>

\* ------------------------------------------------------------------ Next
Next ==
  \/ Advance /\ UNCHANGED handled
  \/ \E a \in ApiSlots, u \in Addresses, ta \in TotalAmountChoices, n \in NumTradesChoices,
        iv \in IntervalChoices, sl \in SlippageChoices : Post(a, u, ta, n, iv, sl) /\ UNCHANGED handled
  \/ \E a \in ApiSlots : PostInsert(a) /\ UNCHANGED handled
  \/ \E a \in ApiSlots, id \in Ids, u \in Claimants, h \in TxHashChoices,
        am \in AmountChoices : ConfirmDeposit(a, id, u, h, am) /\ UNCHANGED handled
  \/ \E a \in ApiSlots : ConfirmRead(a) /\ UNCHANGED handled
  \/ \E a \in ApiSlots : ConfirmWrite(a) /\ UNCHANGED handled
  \/ \E id \in Ids, u \in Claimants : Pause(id, u) /\ UNCHANGED handled
  \/ \E id \in Ids, u \in Claimants : Resume(id, u) /\ UNCHANGED handled
  \/ \E a \in ApiSlots, id \in Ids, u \in Claimants : Delete(a, id, u) /\ UNCHANGED handled
  \/ \E a \in ApiSlots : DeleteWrite(a) /\ UNCHANGED handled
  \/ \E c \in Invocations : Start(c) /\ UNCHANGED handled
  \/ \E c \in Invocations : Cleanup(c) /\ UNCHANGED handled
  \/ \E c \in Invocations : CleanupRead(c) /\ UNCHANGED handled
  \/ \E c \in Invocations, i \in Ids : CleanupWrite(c, i) /\ UNCHANGED handled
  \/ \E c \in Invocations : Scan(c) /\ UNCHANGED handled
  \/ \E c \in Invocations : Balances(c) /\ UNCHANGED handled
  \/ \E c \in Invocations, ok \in BOOLEAN : QuoteReturns(c, ok) /\ UNCHANGED handled
  \/ \E c \in Invocations, ok \in BOOLEAN : SwapReturns(c, ok) /\ UNCHANGED handled
  \/ \E c \in Invocations, ok \in BOOLEAN : TransferReturns(c, ok) /\ UNCHANGED handled
  \/ \E c \in Invocations : RecordRead(c) /\ UNCHANGED handled
  \/ \E c \in Invocations : RecordWrite(c) /\ UNCHANGED handled

Spec == Init /\ [][Next]_vars

\* ------------------------------------------------ requests and responses
\* The routes with the responses they give, for the deployments of every
\* environment.  The in-memory store starts empty with its process; a deployment
\* that lost its executor key may also run on the supabase store, whose table
\* keeps the row of a session that an earlier deployment created and funded.
PriorRows ==
  << ConfirmedSession(NewSession("0xa", 2, 1, 1, 100, 0), ValidTxHash, 2, 0) >>

\* the times requests arrive at: just inside and at one and two minimum intervals
RequestTimes ==
  {MIN_EXECUTION_INTERVAL_MS, 2 * MIN_EXECUTION_INTERVAL_MS - 1, 2 * MIN_EXECUTION_INTERVAL_MS}

RequestIds == 1..MaxRequestSessions

RequestInit ==
  /\ env \in Environments
  /\ store \in (IF env.EXECUTOR_PRIVATE_KEY # Null THEN {"memory"}
                  ELSE {"memory", "supabase"})
  /\ now = MIN_EXECUTION_INTERVAL_MS
  /\ sessions = (IF store = "supabase" THEN PriorRows ELSE << >>)
  /\ memMap = {}
  /\ kvUserSet = {}
  /\ lastExecutionTime = 0
  /\ inv = [c \in Invocations |-> IdleInv]
  /\ api = [a \in ApiSlots |-> IdleApi]
  /\ cancelledIds = {}
  /\ cancelledInFlight = {}
  /\ pickedAfterCancel = {}
  /\ pickedInFlight = {}
  /\ finished = {}
  /\ strandedRecords = {}
  /\ unrecorded = {}
  /\ handled = NoRequests

\* a step that is not the arrival of a request answers none
Silent == handled' = [handled EXCEPT !.last = NoRequest]

Elapse ==
  /\ \E t \in RequestTimes : t > now /\ now' = t
  /\ Silent
  /\ UNCHANGED <<store, env, sessions, memMap, kvUserSet, lastExecutionTime, inv, api,
                 history>>

\* the status of the response to a scheduler trigger that was authorized
CronStatus(response) ==
  IF response = "rate_limited" THEN 429
  ELSE IF response = "unavailable" THEN 503
  ELSE 200

\* GET and POST of the scheduler endpoint: the authorization check, then GET
Trigger(c, method, headers) ==
  LET r == [NoRequest EXCEPT !.route = "cron", !.method = method, !.cron = headers.cron,
                             !.authorization = headers.authorization]
  IN IF ~isAuthorizedCronRequest(headers, env)
     THEN /\ handled' = [handled EXCEPT !.last =
                 [r EXCEPT !.status = IF method = "GET" THEN 401 ELSE 405]]
          /\ UNCHANGED state
     ELSE /\ Start(c)
          /\ handled' =
               [ handled EXCEPT
                 !.last = [r EXCEPT !.elapsed = now - lastExecutionTime,
                                    !.status = CronStatus(inv'[c].response),
                                    !.retryAfter = inv'[c].retryAfter,
                                    !.changed = \/ sessions' # sessions
                                                \/ memMap' # memMap
                                                \/ inv'[c].pc # "done",
                                    !.stamped = lastExecutionTime' # lastExecutionTime],
                 !.acceptedAt = IF inv'[c].response = "rate_limited"
                                THEN handled.acceptedAt
                                ELSE Append(handled.acceptedAt, now) ]

\* POST of the session API, its fields valid: the executor check, then Post
Create(a, userAddress, totalAmount, numTrades, intervalMinutes, slippageBps) ==
  LET r == [NoRequest EXCEPT !.route = "create", !.method = "POST",
                             !.claimed = userAddress]
  IN IF ~IsExecutorConfigured(env)
     THEN /\ handled' = [handled EXCEPT !.last = [r EXCEPT !.status = 503]]
          /\ UNCHANGED state
     ELSE /\ Len(sessions) < MaxRequestSessions
          /\ Post(a, userAddress, totalAmount, numTrades, intervalMinutes, slippageBps)
          /\ handled' = [handled EXCEPT !.last =
                 [r EXCEPT !.status = 200,
                           !.changed = \/ Len(sessions') # Len(sessions)
                                       \/ api'[a].pc # api[a].pc]]

\* the status PATCH confirm_deposit answers with
ConfirmStatus(id, claimed, txHash) ==
  IF id \notin Stored THEN 404
  ELSE IF ~Owns(claimed, sessions[id]) THEN 403
  ELSE IF ~IsTxHash(txHash) THEN 400
  ELSE IF sessions[id].status # "awaiting_deposit" THEN 400
  ELSE 200

\* the status DELETE answers with
DeleteStatus(id, claimed) ==
  IF id \notin Stored THEN 404
  ELSE IF ~Owns(claimed, sessions[id]) THEN 403
  ELSE 200

\* the request of PATCH or DELETE as the history notes it
Claim(route, method, id, claimed) ==
  [NoRequest EXCEPT !.route = route, !.method = method, !.claimed = claimed,
                    !.owner = IF id \in Stored THEN sessions[id].userAddress ELSE Null]

\* PATCH confirm_deposit with its response
Confirm(a, id, claimed, txHash, amount) ==
  LET r == Claim("confirm", "PATCH", id, claimed)
      status == ConfirmStatus(id, claimed, txHash)
  IN IF status # 200
     THEN /\ handled' = [handled EXCEPT !.last = [r EXCEPT !.status = status]]
          /\ UNCHANGED state
     ELSE /\ ConfirmDeposit(a, id, claimed, txHash, amount)
          /\ handled' = [handled EXCEPT !.last =
                 [r EXCEPT !.status = status,
                           !.changed = \/ sessions' # sessions
                                       \/ api'[a].pc # api[a].pc]]

\* DELETE with its response
Cancel(a, id, claimed) ==
  LET r == Claim("cancel", "DELETE", id, claimed)
      status == DeleteStatus(id, claimed)
  IN IF status # 200
     THEN /\ handled' = [handled EXCEPT !.last = [r EXCEPT !.status = status]]
          /\ UNCHANGED state
     ELSE /\ Delete(a, id, claimed)
          /\ handled' = [handled EXCEPT !.last =
                 [r EXCEPT !.status = status,
                           !.changed = \/ sessions' # sessions
                                       \/ memMap' # memMap]]

RequestNext ==
  \/ Elapse
  \/ \E a \in ApiSlots, u \in Addresses, ta \in TotalAmountChoices, n \in NumTradesChoices,
        iv \in IntervalChoices, sl \in SlippageChoices : Create(a, u, ta, n, iv, sl)
  \/ \E a \in ApiSlots, id \in RequestIds, u \in Claimants, h \in TxHashChoices,
        am \in AmountChoices : Confirm(a, id, u, h, am)
  \/ \E a \in ApiSlots, id \in RequestIds, u \in Claimants : Cancel(a, id, u)
  \/ \E c \in Invocations, m \in Methods, h \in Headers : Trigger(c, m, h)
  \/ \E c \in Invocations : Balances(c) /\ Silent
  \/ \E c \in Invocations, ok \in BOOLEAN : QuoteReturns(c, ok) /\ Silent
  \/ \E c \in Invocations, ok \in BOOLEAN : SwapReturns(c, ok) /\ Silent
  \/ \E c \in Invocations, ok \in BOOLEAN : TransferReturns(c, ok) /\ Silent

RequestSpec == RequestInit /\ [][RequestNext]_vars

\* ------------------------------------------------ the scheduler keeps running
\* The scheduler endpoint is triggered again and again, every await of a pass
\* returns, and time advances; the requests of users come or do not come.

\* the response of a pass was sent: the invocation is over
Retire(c) ==
  /\ inv[c].pc = "done"
  /\ inv' = [inv EXCEPT ![c] = IdleInv]
  /\ UNCHANGED <<store, env, now, sessions, memMap, kvUserSet, lastExecutionTime, api, history>>

\* time goes on after the last clock value of the model: every expiresAt is
\* behind the clock and stays there, and the minimum interval since the last
\* accepted invocation has elapsed once more
Later ==
  /\ now >= LongJump
  /\ lastExecutionTime' = now - MIN_EXECUTION_INTERVAL_MS
  /\ UNCHANGED <<store, env, now, sessions, memMap, kvUserSet, inv, api, history>>

\* PATCH pause answered with success: the session is paused for its user
Hold(id, claimed) ==
  /\ Pause(id, claimed)
  /\ handled' = [handled EXCEPT !.paused = @ \cup {id}]

\* PATCH resume answered with success: the session is no longer paused
Release(id, claimed) ==
  /\ Resume(id, claimed)
  /\ handled' = [handled EXCEPT !.paused = @ \ {id}]

\* GET passed the rate limit
Accepted(c) == Start(c) /\ inv'[c].response # "rate_limited"

\* the step of a pass after the await it is at
Continue(c) ==
  \/ Cleanup(c)
  \/ CleanupRead(c)
  \/ \E i \in Ids : CleanupWrite(c, i)
  \/ Scan(c)
  \/ Balances(c)
  \/ \E ok \in BOOLEAN : QuoteReturns(c, ok)
  \/ \E ok \in BOOLEAN : SwapReturns(c, ok)
  \/ \E ok \in BOOLEAN : TransferReturns(c, ok)
  \/ RecordRead(c)
  \/ RecordWrite(c)
  \/ Retire(c)

\* the scheduler platform runs one invocation of the endpoint at a time
LiveInvocations == 1..MaxLiveInvocations

LiveNext ==
  \/ Advance /\ UNCHANGED handled
  \/ Later /\ UNCHANGED handled
  \/ \E a \in ApiSlots, u \in Addresses, ta \in TotalAmountChoices, n \in NumTradesChoices,
        iv \in IntervalChoices, sl \in SlippageChoices :
        /\ Len(sessions) + Cardinality({b \in ApiSlots : api[b].pc = "insert"})
             < MaxRequestSessions
        /\ Post(a, u, ta, n, iv, sl)
        /\ UNCHANGED handled
  \/ \E a \in ApiSlots : now <= MaxCreateTime /\ PostInsert(a) /\ UNCHANGED handled
  \/ \E a \in ApiSlots, id \in Ids, u \in Claimants, h \in TxHashChoices,
        am \in AmountChoices : ConfirmDeposit(a, id, u, h, am) /\ UNCHANGED handled
  \/ \E a \in ApiSlots : ConfirmRead(a) /\ UNCHANGED handled
  \/ \E a \in ApiSlots : ConfirmWrite(a) /\ UNCHANGED handled
  \/ \E id \in Ids, u \in Claimants : Hold(id, u)
  \/ \E id \in Ids, u \in Claimants : Release(id, u)
  \/ \E a \in ApiSlots, id \in Ids, u \in Claimants : Delete(a, id, u) /\ UNCHANGED handled
  \/ \E a \in ApiSlots : DeleteWrite(a) /\ UNCHANGED handled
  \/ \E c \in LiveInvocations : Start(c) /\ UNCHANGED handled
  \/ \E c \in LiveInvocations : Continue(c) /\ UNCHANGED handled

LiveSpec ==
  /\ Init
  /\ [][LiveNext]_vars
  /\ WF_vars(Advance /\ UNCHANGED handled)
  /\ WF_vars(Later /\ UNCHANGED handled)
  /\ SF_vars(\E c \in LiveInvocations : Accepted(c) /\ UNCHANGED handled)
  /\ \A c \in LiveInvocations : WF_vars(Continue(c) /\ UNCHANGED handled)

\* ---------------------------------------------------------------- claims
\* the leg of a trade that an error message of executeSwap names
LegNamed(e) == IF e = QuoteError THEN "quote" ELSE "none"

\* C1: for every session, tradesCompleted never decreases and never exceeds
\* numTrades, over any sequence of scheduler passes and recordTrade calls.
C1_TradesCompletedMonotoneBounded ==
  [][\A i \in DOMAIN sessions :
       /\ sessions'[i].tradesCompleted >= sessions[i].tradesCompleted
       /\ sessions'[i].tradesCompleted <= sessions'[i].numTrades]_vars

\* C2: the due scan never returns a session for which an executeTrade has
\* started and whose recordTrade has not yet been written.
C2_NeverDueWhileInFlight == pickedInFlight = {}

\* C3: once a session has been cancelled, no later due scan returns it.
C3_CancelledNeverDue == pickedAfterCancel = {}

\* C4: every user address, compared case-insensitively, has at most one
\* stored session whose status is active or awaiting_deposit.
C4_OneOpenSessionPerUser ==
  \A i, j \in Stored :
    ( /\ i # j
      /\ toLowerCase(sessions[i].userAddress) = toLowerCase(sessions[j].userAddress)
      /\ sessions[i].status \in {"active", "awaiting_deposit"} )
    => sessions[j].status \notin {"active", "awaiting_deposit"}

\* C5, as claimed: nextTradeAt is null exactly when the status is
\* awaiting_deposit, completed, failed or cancelled.
C5_NullIffTerminalOrAwaiting ==
  \A i \in Stored :
    (sessions[i].nextTradeAt = NoTime)
      <=> (sessions[i].status \in Terminal \cup {"awaiting_deposit"})

\* C5, amended: nextTradeAt is null when the status is awaiting_deposit or
\* completed, and not null when it is active or paused; a cancelled or failed
\* session keeps whatever nextTradeAt it had.
C5_NextTradeAtByStatus ==
  \A i \in DOMAIN sessions :
    /\ sessions[i].status \in {"awaiting_deposit", "completed"}
         => sessions[i].nextTradeAt = NoTime
    /\ sessions[i].status \in {"active", "paused"}
         => sessions[i].nextTradeAt # NoTime

\* C5 witness: a trade was recorded on a session that stays active and scheduled
C5_Witness ==
  \E i \in DOMAIN sessions :
    /\ sessions[i].status = "active"
    /\ Len(sessions[i].trades) > 0
    /\ sessions[i].nextTradeAt > sessions[i].startedAt

\* C6: a stored session is completed if and only if tradesCompleted equals
\* numTrades and nextTradeAt is null.
C6_CompletedIffAllTradesDone ==
  \A i \in Stored :
    (sessions[i].status = "completed")
      <=> ( /\ sessions[i].tradesCompleted = sessions[i].numTrades
            /\ sessions[i].nextTradeAt = NoTime )

\* C7, as claimed: a session with depositConfirmed = false has status
\* awaiting_deposit and a null nextTradeAt.
C7_UnfundedIsAwaiting ==
  \A i \in Stored :
    ~sessions[i].depositConfirmed
      => (sessions[i].status = "awaiting_deposit" /\ sessions[i].nextTradeAt = NoTime)

\* C7, amended: a session with depositConfirmed = false has status
\* awaiting_deposit, cancelled or failed, and a null nextTradeAt.
C7_UnfundedNeverScheduled ==
  \A i \in DOMAIN sessions :
    ~sessions[i].depositConfirmed
      => ( /\ sessions[i].status \in {"awaiting_deposit", "cancelled", "failed"}
           /\ sessions[i].nextTradeAt = NoTime )

\* C7 witness: one unfunded session was cancelled and another was swept
C7_Witness ==
  \E i, j \in DOMAIN sessions :
    /\ ~sessions[i].depositConfirmed /\ sessions[i].status = "cancelled"
    /\ ~sessions[j].depositConfirmed /\ sessions[j].status = "failed"

\* C8: no session has status active with depositConfirmed = false.
C8_ActiveImpliesDepositConfirmed ==
  \A i \in DOMAIN sessions :
    sessions[i].status = "active" => sessions[i].depositConfirmed

\* C8 witness: a session is active again after a resume (its nextTradeAt was
\* reset later than its start, and no trade has been recorded)
C8_Witness ==
  \E i \in DOMAIN sessions :
    /\ sessions[i].status = "active"
    /\ sessions[i].depositConfirmed
    /\ sessions[i].trades = << >>
    /\ sessions[i].nextTradeAt > sessions[i].startedAt

\* C9: a trade recorded after a confirmed swap whose transfer failed carries
\* the swap's amountOut and swapTxHash and an error naming the transfer leg.
C9_StrandedSwapIsRecorded ==
  \A t \in strandedRecords :
    /\ t.amountOut = QuoteOut
    /\ t.swapTxHash = "0xswap"
    /\ LegNamed(t.error) = "transfer"

\* C10: every executeTrade ends having called recordTrade exactly once, with
\* status success or failed.
C10_RecordsExactlyOnce ==
  \A f \in finished : Len(f) = 1 /\ f[1] \in {"success", "failed"}

\* C10 witness: one executeTrade has ended in success and one in failure
C10_Witness == <<"success">> \in finished /\ <<"failed">> \in finished

\* the recordTrade calls that compute in this step, each as the pair of the
\* session read and the session after the trade was pushed and accounted
RecordTradePairs ==
  {<<sessions[i], sessions'[i]>> :
      i \in {j \in DOMAIN sessions :
               store = "memory" /\ Len(sessions'[j].trades) = Len(sessions[j].trades) + 1}}
  \cup {<<sessions[inv[c].cur], inv'[c].rec>> :
      c \in {d \in Invocations : inv[d].pc = "recRead" /\ inv'[d].pc = "recWrite"}}

\* the trade a recordTrade call pushed
LastTrade(s) == s.trades[Len(s.trades)]

\* this step is invocation c running cleanupExpiredSessions, or a part of it
CleanupStep(c) ==
  /\ inv'[c].pc # inv[c].pc \/ DOMAIN inv'[c].sweep # DOMAIN inv[c].sweep
  /\ \/ inv[c].pc \in {"cleanup", "sweep"}
     \/ store = "memory" /\ inv[c].pc = "idle" /\ inv'[c].response # "rate_limited"

\* this step writes the confirmDeposit of session i to the store
ConfirmStep(i) ==
  \/ store = "memory" /\ sessions'[i].depositTxHash # sessions[i].depositTxHash
  \/ \E a \in ApiSlots :
       api[a].pc = "confirmWrite" /\ api'[a].pc = "idle" /\ api[a].id = i

\* the Date.now() of the confirmDeposit call written in this step
ConfirmTime ==
  IF store = "memory" THEN {now}
  ELSE {api[a].value.startedAt : a \in {b \in ApiSlots : api[b].pc = "confirmWrite"}}

\* C11: when a session is cancelled while one of its trades is in flight, the
\* trade's outcome is still appended to its trades, and the session still has
\* status cancelled afterwards.
C11_CancelKeepsTradeAndStatus ==
  /\ unrecorded \cap cancelledInFlight = {}
  /\ \A i \in cancelledInFlight : sessions[i].status = "cancelled"

\* C12: cleanupExpiredSessions changes exactly the stored sessions with
\* expiresAt < now and a status other than completed, failed and cancelled, each
\* to failed with lastError "Session expired", and counts the sessions it changed.
C12_CleanupChangesExactlyExpired ==
  [][\A c \in Invocations :
       CleanupStep(c) =>
         LET changed == {i \in DOMAIN sessions : sessions'[i] # sessions[i]}
             target == {i \in Stored : /\ sessions[i].expiresAt < now
                                       /\ sessions[i].status \notin Terminal}
         IN /\ \A i \in changed :
                 i \in target /\ sessions'[i] = SweptSession(sessions[i])
            /\ inv'[c].cleaned = inv[c].cleaned + Cardinality(changed)
            /\ inv'[c].pc \notin {"cleanup", "sweep"} =>
                 \A i \in target : sessions'[i].status = "failed"]_vars

\* C13: a session whose status is completed, failed or cancelled keeps that
\* status in every step.
C13_TerminalIsAbsorbing ==
  [][\A i \in DOMAIN sessions :
       sessions[i].status \in Terminal
         => sessions'[i].status = sessions[i].status]_vars

\* C14: a confirm_deposit is written only to a session whose status is
\* awaiting_deposit and only with a well-formed txHash; it sets
\* depositConfirmed, status active, startedAt = nextTradeAt = the time of the
\* call, and the session is then due.
C14_ConfirmOnlyAwaitingDeposit ==
  [][\A i \in DOMAIN sessions :
       ConfirmStep(i) =>
         /\ sessions[i].status = "awaiting_deposit"
         /\ IsTxHash(sessions'[i].depositTxHash)
         /\ sessions'[i].depositConfirmed
         /\ sessions'[i].status = "active"
         /\ sessions'[i].startedAt \in ConfirmTime
         /\ sessions'[i].nextTradeAt = sessions'[i].startedAt
         /\ IsDue(sessions'[i], now)]_vars

\* the headers of the trigger the last step answered
TriggerHeaders == [cron |-> handled.last.cron, authorization |-> handled.last.authorization]

\* C15: a cancel (DELETE) or confirm_deposit (PATCH) request whose claimed
\* userAddress is absent or differs, case-insensitively, from the session's
\* userAddress is rejected and leaves the session unchanged; only a request
\* claiming the owning address mutates the session.
C15_OnlyOwnerMutates ==
  LET r == handled.last IN
  r.route \in {"confirm", "cancel"} /\ r.owner # Null
    /\ (r.claimed = Null \/ toLowerCase(r.claimed) # toLowerCase(r.owner))
  => r.status # 200 /\ ~r.changed

\* C16: an authorized scheduler invocation that arrives less than 30 000 ms
\* after the last accepted one is answered 429 with retryAfter >= 1 second and
\* runs no cleanup, scan or trade; any two invocations that pass the rate-limit
\* check are at least 30 s apart, also when they overlap.
C16_RateLimitSpacesInvocations ==
  LET r == handled.last IN
  /\ r.route = "cron" /\ isAuthorizedCronRequest(TriggerHeaders, env)
       /\ r.elapsed < MIN_EXECUTION_INTERVAL_MS
     => r.status = 429 /\ r.retryAfter >= 1 /\ ~r.changed /\ ~r.stamped
  /\ \A i, j \in DOMAIN handled.acceptedAt :
       i < j => handled.acceptedAt[j] - handled.acceptedAt[i] >= MIN_EXECUTION_INTERVAL_MS

\* a trigger 29 999 ms after an accepted one is turned away with retryAfter 1
\* while a session is due
C16_Witness ==
  /\ handled.last.route = "cron"
  /\ handled.last.status = 429
  /\ handled.last.retryAfter = 1
  /\ Len(handled.acceptedAt) = 1
  /\ \E i \in memMap : IsDue(sessions[i], now)

\* C17: in production a scheduler trigger, GET or POST, that carries neither
\* the scheduler's header nor the correct bearer secret is answered with an
\* unauthorized response (401) and runs no cleanup, scan or trade and leaves the
\* last-run timestamp alone; with no secret configured no bearer token is
\* accepted.
C17_UnauthorizedTriggerRejected ==
  LET r == handled.last
      correct == env.CRON_SECRET = "s3cret" /\ r.authorization = "Bearer s3cret"
  IN r.route = "cron" /\ env.NODE_ENV = "production" /\ r.cron # "true" /\ ~correct
     => r.status = 401 /\ ~r.changed /\ ~r.stamped

\* C18: with no executor wallet configured a scheduler invocation that is let
\* through answers 503 and a session-creation request answers 503; no sweep,
\* scan or trade runs, no session is created, no session state changes.
C18_UnconfiguredExecutorDoesNothing ==
  [][ LET r == handled'.last IN
      env.EXECUTOR_PRIVATE_KEY = Null /\ r.route \in {"create", "cron"} =>
        /\ sessions' = sessions
        /\ memMap' = memMap
        /\ \A c \in Invocations : inv'[c].pc \in {"idle", "done"}
        /\ r.route = "create" => r.status = 503
        /\ r.route = "cron" /\ r.status \notin {401, 405, 429} => r.status = 503
    ]_vars

\* the scheduler answered 503 while a funded session of the table was due
C18_Witness ==
  /\ env.EXECUTOR_PRIVATE_KEY = Null
  /\ handled.last.route = "cron"
  /\ handled.last.status = 503
  /\ \E i \in DOMAIN sessions : IsDue(sessions[i], now)

C20_SuccessTradeAccounting ==
  [][\A p \in RecordTradePairs :
       LastTrade(p[2]).status = "success"
         => /\ p[2].trades = Append(p[1].trades, LastTrade(p[2]))
            /\ p[2].tradesCompleted = p[1].tradesCompleted + 1
            /\ p[2].totalMoveReceived = p[1].totalMoveReceived + LastTrade(p[2]).amountOut
            /\ p[2].lastError = Null
            /\ IF p[2].tradesCompleted = p[2].numTrades
               THEN p[2].status = "completed" /\ p[2].nextTradeAt = NoTime
               ELSE /\ p[2].status = p[1].status
                    /\ p[2].nextTradeAt = now + p[1].intervalMinutes * MS_PER_MINUTE]_vars

\* C22: cleanupExpiredSessions is idempotent: run twice in succession at the
\* same clock value, the second run changes no session and returns 0.
C22_CleanupIsIdempotent ==
  LET one == CleanupExpiredSessions(sessions, memMap, now)
      two == CleanupExpiredSessions(one.sessions, one.memMap, now)
  IN two.sessions = one.sessions /\ two.cleaned = 0

\* the fields of a session that are fixed at creation (its id is its index)
Frame(s) ==
  [ userAddress |-> s.userAddress, totalAmount |-> s.totalAmount,
    numTrades |-> s.numTrades, amountPerTrade |-> s.amountPerTrade,
    intervalMinutes |-> s.intervalMinutes, slippageBps |-> s.slippageBps,
    createdAt |-> s.createdAt, expiresAt |-> s.expiresAt ]

\* C23: a session is created with amountPerTrade = totalAmount / numTrades, and
\* no later operation changes its id, userAddress, totalAmount, numTrades,
\* amountPerTrade, intervalMinutes, slippageBps, createdAt or expiresAt.
C23_ConfigurationIsFixed ==
  [][ /\ \A i \in DOMAIN sessions : Frame(sessions'[i]) = Frame(sessions[i])
      /\ \A i \in DOMAIN sessions' \ DOMAIN sessions :
           sessions'[i].amountPerTrade * sessions'[i].numTrades = sessions'[i].totalAmount
    ]_vars

\* a funded session has traded and has then been swept as expired
C23_Witness ==
  \E i \in DOMAIN sessions :
    /\ sessions[i].depositConfirmed
    /\ sessions[i].trades # << >>
    /\ sessions[i].status = "failed"
    /\ sessions[i].lastError = "Session expired"

\* this step starts an executeTrade of invocation c
TradeStarts(c) ==
  inv'[c].pc = "quote" /\ (inv[c].pc # "quote" \/ inv'[c].cur # inv[c].cur)

\* C24: in every scheduler pass the expiration sweep runs before the due scan,
\* and no session whose expiresAt is at or before the current time is handed to
\* executeTrade in that pass.
C24_ExpiredNeverHandedOver ==
  [][\A c \in Invocations :
       /\ inv'[c].pc = "scan" /\ inv[c].pc # "scan" => inv[c].pc \in {"cleanup", "sweep"}
       /\ TradeStarts(c) => sessions'[inv'[c].cur].expiresAt > now]_vars

\* this step is one of invocation c
StepOf(c) == inv'[c].pc # inv[c].pc \/ inv'[c].cur # inv[c].cur

\* C26: within one trade the steps are ordered quote, swap, transfer: no
\* transaction is submitted when the quote fails, the transfer is submitted only
\* after the swap was confirmed, and a failed quote or swap is recorded in the
\* session's trades as a trade with status failed and an error message.
C26_QuoteSwapTransferInOrder ==
  [][\A c \in Invocations :
       /\ inv'[c].pc = "swap" /\ StepOf(c) => inv[c].pc = "quote"
       /\ inv'[c].pc = "transfer" /\ StepOf(c) =>
            inv[c].pc = "swap" /\ inv'[c].swapConfirmed
       /\ inv[c].pc \in {"quote", "swap"} /\ StepOf(c)
            /\ inv'[c].pc \notin {"swap", "transfer"} /\ store = "memory"
          => LET i == inv[c].cur IN
             /\ Len(sessions'[i].trades) = Len(sessions[i].trades) + 1
             /\ LastTrade(sessions'[i]).status = "failed"
             /\ LastTrade(sessions'[i]).error # Null
       /\ inv[c].pc \in {"quote", "swap"} /\ StepOf(c)
            /\ inv'[c].pc \notin {"swap", "transfer"} /\ store # "memory"
          => /\ inv'[c].pc = "recRead"
             /\ Len(inv'[c].toRecord) = 1
             /\ inv'[c].toRecord[1].status = "failed"
             /\ inv'[c].toRecord[1].error # Null
       /\ inv[c].pc = "recWrite" /\ StepOf(c)
          => LastTrade(sessions'[inv[c].cur]) = Head(inv[c].toRecord)]_vars

\* the swaps confirmed for session i that the state shows: its trades recorded
\* as successful and its trades in flight whose swap is confirmed.  Swaps of
\* trades recorded as failed are not among them.
SwapsShown(i) ==
  Cardinality({k \in DOMAIN sessions[i].trades : sessions[i].trades[k].status = "success"})
    + Cardinality({c \in Invocations :
                     inv[c].cur = i /\ inv[c].pc \in InExecuteTrade /\ inv[c].swapConfirmed})

\* C27: for every session the number of swap transactions confirmed on its
\* behalf never exceeds numTrades, also when a transfer fails after its swap
\* and when overlapping invocations picked up the same due session.
C27_SwapsBoundedByNumTrades ==
  \A i \in DOMAIN sessions : SwapsShown(i) <= sessions[i].numTrades

\* t begins with the records of s, unaltered and in the same order
Extends(t, s) == Len(t) >= Len(s) /\ \A k \in DOMAIN s : t[k] = s[k]

\* the sum of amountOut over the successful records
RECURSIVE MoveReceived(_)
MoveReceived(trades) ==
  IF trades = << >> THEN 0
  ELSE (IF Head(trades).status = "success" THEN Head(trades).amountOut ELSE 0)
         + MoveReceived(Tail(trades))

\* C28: trades only grows by appending, tradesCompleted equals the number of
\* successful records in trades and totalMoveReceived equals the sum of their
\* amountOut, also when two recordTrade calls interleave their read and write.
C28_TradesAppendOnlyAndCounted ==
  [][\A i \in DOMAIN sessions :
       /\ Extends(sessions'[i].trades, sessions[i].trades)
       /\ sessions'[i].tradesCompleted =
            Cardinality({k \in DOMAIN sessions'[i].trades :
                           sessions'[i].trades[k].status = "success"})
       /\ sessions'[i].totalMoveReceived = MoveReceived(sessions'[i].trades)]_vars

\* C30: within a session's trades no two records have the same id.
C30_TradeIdsUnique ==
  \A i \in DOMAIN sessions :
    \A a, b \in DOMAIN sessions[i].trades :
      a # b => sessions[i].trades[a].seq # sessions[i].trades[b].seq

\* the sessions of a pass in the order of its loop: those with a result pushed,
\* the one executeTrade is running for, those still to come
LoopOrder(r) ==
  [k \in DOMAIN r.results |-> r.results[k].sessionId]
    \o (IF r.pc \in InExecuteTrade THEN <<r.cur>> ELSE << >>) \o r.due

InLoop == InExecuteTrade \cup {"balances"}

C29_EverySessionEnds ==
  \A i \in Ids :
    (i \in DOMAIN sessions) ~> (i \in DOMAIN sessions /\ sessions[i].status \in Terminal)

\* a session that was never funded has been failed by the sweep
C29_Witness ==
  \E i \in DOMAIN sessions :
    /\ ~sessions[i].depositConfirmed
    /\ sessions[i].status = "failed"
    /\ sessions[i].lastError = "Session expired"

\* a due scan of invocation c returns its sessions in this step
ScanReturns(c) == inv[c].pc \in {"idle", "scan"} /\ inv'[c].pc = "balances"

\* C21: a pause is accepted only for an active session and a resume only for a
\* paused one; a session whose pause was accepted and that was not resumed since
\* is returned by no due scan, also when later requests and scheduler passes
\* read the session from the store again; an accepted resume sets status active
\* and nextTradeAt to the current time.
C21_PausedNeverScheduled ==
  [][ /\ \A i \in handled'.paused \ handled.paused : sessions[i].status = "active"
      /\ \A i \in handled.paused \ handled'.paused :
           /\ sessions[i].status = "paused"
           /\ sessions'[i].status = "active"
           /\ sessions'[i].nextTradeAt = now
      /\ \A c \in Invocations :
           ScanReturns(c) =>
             \A k \in DOMAIN inv'[c].due : inv'[c].due[k] \notin handled.paused ]_vars

====
